---- MODULE Spec2Model ----
(***************************************************************************)
(* A model of ament_cobra/main.py: the command-line adapter that discovers *)
(* C/C++ files, groups them, derives preprocessor options from a compile   *)
(* database, invokes the cobra analyzer and writes xunit / SARIF reports.  *)
(*                                                                         *)
(* Three specifications share this module:                                 *)
(*   SpecGroups   get_file_groups / append_file_to_group over a file tree  *)
(*   SpecExtract  the preprocessor-option loop of main (lines 143-162)     *)
(*   SpecMain     main's control flow, invoke_cobra and the report writers *)
(* Python strings are TLA+ strings; their order is the code-point order.   *)
(***************************************************************************)
EXTENDS Naturals, Sequences, FiniteSets, TLC

VARIABLES
    \* --- get_file_groups -------------------------------------------------
    fs_ignored,   \* directories that hold an AMENT_IGNORE entry
    fs_vcs,       \* directories that hold a .git entry
    g_paths,      \* the `paths` argument
    g_excludes,   \* the resolved exclude set (line 297)
    g_idx,        \* index of the next element of `paths`
    groups,       \* the dict being built: group key -> list of paths
    walked,       \* <<top, dirpath>> pairs os.walk has yielded
    g_pc,         \* "idle" | "loop" | "returned"
    \* --- preprocessor option extraction ---------------------------------
    e_ruleset,    \* args.ruleset
    e_tokens,     \* compile_options = item['command'].split()
    e_pos,        \* tokens the iterator `options` has handed out
    e_out,        \* preprocessor_options
    e_pc,         \* "idle" | "loop" | "done" | "raised"
    \* --- main ----------------------------------------------------------
    args,         \* the parsed command line
    m_pc,         \* main's position
    returned_at,  \* which return statement ended main ("" while running)
    cobra_bin,    \* find_executable's result ("" for None)
    m_groups,     \* get_file_groups' result, in sorted(groups.keys()) order
    cmd,          \* the list `cmd`
    options_map,  \* file -> preprocessor options
    gi,           \* index of the current group
    fi,           \* index of the current file of the group (compile_cmds)
    version_runs, \* how often `cobra -V` was run
    invocations,  \* the argument lists handed to subprocess.Popen, in order
    launch_failed,\* some Popen of the analyzer could not start the child
    reported,     \* sum of the issue counts in the analyzer's stdout lines
    report,       \* file -> number of failures listed for it
    error_count,  \* the summary's error_count
    rc,           \* the exit code main has chosen
    printed,      \* what was printed to stdout / stderr
    disk,         \* files written by the analyzer or by main
    exc           \* the exception that ended main ("" for none)

varsG == <<fs_ignored, fs_vcs, g_paths, g_excludes, g_idx, groups, walked, g_pc>>
varsE == <<e_ruleset, e_tokens, e_pos, e_out, e_pc>>
varsM ==
    <<args, m_pc, returned_at, cobra_bin, m_groups, cmd, options_map, gi, fi,
      version_runs, invocations, launch_failed, reported, report, error_count,
      rc, printed, disk, exc>>
vars == <<varsG, varsE, varsM>>

(***************************************************************************)
(* Python str helpers                                                      *)
(***************************************************************************)

\* ord(c) for the characters that occur in the modelled paths.
Ord(c) ==
    CASE c = "." -> 46 [] c = "/" -> 47
      [] c = "A" -> 65 [] c = "E" -> 69 [] c = "G" -> 71 [] c = "I" -> 73
      [] c = "M" -> 77 [] c = "N" -> 78 [] c = "O" -> 79 [] c = "R" -> 82
      [] c = "T" -> 84 [] c = "_" -> 95
      [] c = "a" -> 97 [] c = "b" -> 98 [] c = "c" -> 99 [] c = "d" -> 100
      [] c = "e" -> 101 [] c = "g" -> 103 [] c = "i" -> 105 [] c = "l" -> 108
      [] c = "n" -> 110 [] c = "o" -> 111 [] c = "p" -> 112 [] c = "r" -> 114
      [] c = "s" -> 115 [] c = "t" -> 116 [] c = "u" -> 117 [] c = "v" -> 118
      [] c = "w" -> 119 [] c = "x" -> 120 [] c = "z" -> 122

CharAt(s, i) == SubSeq(s, i, i)

Min(a, b) == IF a <= b THEN a ELSE b

\* a < b on Python strings: code-point lexicographic order.
StrLess(a, b) ==
    LET n == Min(Len(a), Len(b))
        diff == {i \in 1..n : CharAt(a, i) # CharAt(b, i)}
    IN  IF diff = {}
        THEN Len(a) < Len(b)
        ELSE LET k == CHOOSE i \in diff : \A j \in diff : i <= j
             IN  Ord(CharAt(a, k)) < Ord(CharAt(b, k))

\* a > b on Python strings.
StrGreater(a, b) == StrLess(b, a)

\* str.startswith
StartsWith(s, prefix) ==
    Len(s) >= Len(prefix) /\ SubSeq(s, 1, Len(prefix)) = prefix

\* str.endswith
EndsWith(s, suffix) ==
    Len(s) >= Len(suffix) /\ SubSeq(s, Len(s) - Len(suffix) + 1, Len(s)) = suffix

\* The positions of character c in s.
Positions(s, c) == {i \in 1..Len(s) : CharAt(s, i) = c}

Max(S) == CHOOSE x \in S : \A y \in S : y <= x

\* sorted(S) for a set of strings.
RECURSIVE SortedSeq(_)
SortedSeq(S) ==
    IF S = {} THEN <<>>
    ELSE LET m == CHOOSE x \in S : \A y \in S : x = y \/ StrLess(x, y)
         IN  <<m>> \o SortedSeq(S \ {m})

\* Whether a list of strings is in non-decreasing order.
IsSorted(s) == \A i \in 1..(Len(s) - 1) : ~StrLess(s[i + 1], s[i])

(***************************************************************************)
(* os.path on POSIX                                                        *)
(***************************************************************************)

\* os.path.dirname: everything before the last "/", stripped of trailing
\* slashes unless it consists of slashes only.
Dirname(p) ==
    LET sl == Positions(p, "/")
    IN  IF sl = {} THEN ""
        ELSE LET i == Max(sl)
             IN  IF i = 1 THEN "/" ELSE SubSeq(p, 1, i - 1)

\* os.path.basename: everything after the last "/".
Basename(p) ==
    LET sl == Positions(p, "/")
    IN  IF sl = {} THEN p ELSE SubSeq(p, Max(sl) + 1, Len(p))

\* os.path.join(a, b) for a relative b.
Join(a, b) == IF a = "" \/ EndsWith(a, "/") THEN a \o b ELSE a \o "/" \o b

\* os.path.splitext(name)[1]: from the last dot, unless that dot leads the name.
SplitExt(name) ==
    LET dots == Positions(name, ".")
    IN  IF dots = {} \/ Max(dots) = 1 THEN "" ELSE SubSeq(name, Max(dots), Len(name))

\* The process's working directory.
Cwd == "/w"

\* os.path.abspath for the modelled inputs (no ".", ".." or doubled slashes).
Abspath(p) == IF StartsWith(p, "/") THEN p ELSE Join(Cwd, p)

\* The components of a path: p.split("/") without the empty strings.
RECURSIVE Split(_)
Split(p) ==
    IF p = "" THEN <<>>
    ELSE LET sl == Positions(p, "/")
         IN  IF sl = {} THEN <<p>>
             ELSE LET i == CHOOSE k \in sl : \A j \in sl : k <= j
                      rest == Split(SubSeq(p, i + 1, Len(p)))
                  IN  IF i = 1 THEN rest ELSE <<SubSeq(p, 1, i - 1)>> \o rest

\* "/".join(parts)
RECURSIVE JoinAll(_)
JoinAll(parts) ==
    IF parts = <<>> THEN ""
    ELSE IF Len(parts) = 1 THEN parts[1]
    ELSE parts[1] \o "/" \o JoinAll(Tail(parts))

\* os.path.relpath(path, start) for absolute arguments.
Relpath(path, start) ==
    LET sl == Split(start)
        pl == Split(path)
        n == Min(Len(sl), Len(pl))
        diff == {i \in 1..n : sl[i] # pl[i]}
        common == IF diff = {} THEN n
                  ELSE (CHOOSE i \in diff : \A j \in diff : i <= j) - 1
        ups == [i \in 1..(Len(sl) - common) |-> ".."]
        rel == ups \o SubSeq(pl, common + 1, Len(pl))
    IN  IF rel = <<>> THEN "." ELSE JoinAll(rel)

(***************************************************************************)
(* The file tree get_file_groups runs over                                 *)
(***************************************************************************)

\* Bound: the longest `paths` argument explored.
MaxPaths == 2

\* The directories of the tree.
Dirs == {"/w", "/w/lib", "/w/src", "/w/src/gen", "/w/src/gen/sub", "/w/src/_priv"}

\* The regular files of the tree.
Files ==
    {"/w/top.c", "/w/lib/x.c", "/w/lib/notes.txt", "/w/src/z.c",
     "/w/src/gen/bad.c", "/w/src/gen/sub/deep.cpp", "/w/src/_priv/p.c"}

\* Directories that may hold an AMENT_IGNORE file.
IgnoreCandidates == {"/w/lib", "/w/src/gen"}

\* Directories that may hold a .git directory.
VcsCandidates == {"/", "/w", "/w/lib", "/w/src/gen"}

\* The values the elements of `paths` are drawn from.
PathCandidates ==
    {"/w", "/w/src", "src", "/w/src/gen/sub", "/w/src/gen/bad.c", "/w/missing"}

\* The values the resolved exclude set is drawn from.
ExcludeCandidates == {{}, {"/w/top.c"}}

\* The sequences over S of length lo..hi.
SeqsOf(S, lo, hi) == UNION {[1..n -> S] : n \in lo..hi}

\* os.path.isdir
IsDir(p) == Abspath(p) \in Dirs

\* os.path.isfile
IsFile(p) == Abspath(p) \in Files

\* os.path.exists
Exists(p) ==
    \/ Abspath(p) \in Dirs \cup Files \cup {"/"}
    \/ Basename(p) = ".git" /\ Dirname(Abspath(p)) \in fs_vcs
    \/ Basename(p) = "AMENT_IGNORE" /\ Dirname(Abspath(p)) \in fs_ignored

\* os.path.realpath: the tree holds no symbolic links.
Realpath(p) == Abspath(p)

\* The dirnames os.walk lists for dirpath.
ListDirnames(dirpath) ==
    {Basename(d) : d \in {x \in Dirs : Dirname(x) = Abspath(dirpath)}}
        \cup (IF Abspath(dirpath) \in fs_vcs THEN {".git"} ELSE {})

\* The filenames os.walk lists for dirpath.
ListFilenames(dirpath) ==
    {Basename(f) : f \in {x \in Files : Dirname(x) = Abspath(dirpath)}}
        \cup (IF Abspath(dirpath) \in fs_ignored THEN {"AMENT_IGNORE"} ELSE {})

extensions == <<"c", "cc", "cpp", "cxx">>

\* ('.%s' % e for e in extensions)
ExtList == {"." \o extensions[i] : i \in 1..Len(extensions)}

\* A slip of line 305: `continue` without emptying dirnames first.
PrunedDirnames_kept(dirnames) == dirnames

\* dirnames[:] = [] in a directory that holds AMENT_IGNORE (line 305).
PrunedDirnames(dirnames) == {}

\* [d for d in dirnames if d[0] not in ['.', '_']], then dirnames.sort()
KeptDirnames(dirnames) ==
    SortedSeq({d \in dirnames : CharAt(d, 1) \notin {".", "_"}})

\* 'AMENT_IGNORE' in dirnames + filenames
HasIgnoreMarker(dirnames, filenames) == "AMENT_IGNORE" \in dirnames \cup filenames

\* The files one directory contributes: sorted(filenames) filtered by extension.
SelectedFiles(dirpath, filenames) ==
    LET names == SortedSeq({f \in filenames : SplitExt(f) \in ExtList})
    IN  [i \in 1..Len(names) |-> Join(dirpath, names[i])]

\* os.walk(top) with the loop body's pruning applied: the directories yielded,
\* in order, each with the file paths the body selects there.
RECURSIVE Walk(_)
RECURSIVE WalkEach(_, _)
Walk(dirpath) ==
    LET dirnames == ListDirnames(dirpath)
        filenames == ListFilenames(dirpath)
        ignore == HasIgnoreMarker(dirnames, filenames)
        descend == IF ignore THEN SortedSeq(PrunedDirnames(dirnames))
                   ELSE KeptDirnames(dirnames)
        found == IF ignore THEN <<>> ELSE SelectedFiles(dirpath, filenames)
    IN  <<[dirpath |-> dirpath, found |-> found]>> \o WalkEach(dirpath, descend)

WalkEach(dirpath, names) ==
    IF names = <<>> THEN <<>>
    ELSE Walk(Join(dirpath, Head(names))) \o WalkEach(dirpath, Tail(names))

(***************************************************************************)
(* append_file_to_group                                                    *)
(***************************************************************************)

subfolder_names == <<"include", "src", "test">>

\* re.search('^(.+/NAME)/', path).group(1), or "" when there is no match:
\* the greedy .+ takes the last "/NAME/" that has a character before it.
MatchGroup(path, name) ==
    LET pat == "/" \o name \o "/"
        hits == {k \in 2..Len(path) :
                    k + Len(pat) - 1 <= Len(path)
                    /\ SubSeq(path, k, k + Len(pat) - 1) = pat}
    IN  IF hits = {} THEN "" ELSE SubSeq(path, 1, Max(hits) + Len(pat) - 2)

\* match_groups, sorted by length: the last (longest) one, or "" for none.
LongestMatch(path) ==
    LET ms == {MatchGroup(path, subfolder_names[i]) : i \in 1..Len(subfolder_names)} \ {""}
    IN  IF ms = {} THEN "" ELSE CHOOSE m \in ms : \A o \in ms : Len(o) <= Len(m)

\* The repository root loop (lines 438-448): the nearest proper ancestor that
\* holds a marker, or "" (None) when the walk up reaches the root without one.
RECURSIVE RepoRoot(_)
RepoRoot(p) ==
    IF p = "" \/ Dirname(p) = p THEN ""
    ELSE LET up == Dirname(p)
         IN  IF Exists(Join(up, ".git")) THEN up ELSE RepoRoot(up)

\* A slip of line 451: any repository root other than base_path counts.
RootIsRelative_anyRoot(repo_root, base_path) ==
    repo_root # "" /\ repo_root # base_path

\* if repo_root and repo_root > base_path
RootIsRelative(repo_root, base_path) ==
    repo_root # "" /\ StrGreater(repo_root, base_path)

\* The group key `root` append_file_to_group computes for an absolute path.
GroupKey(path) ==
    LET m == LongestMatch(path)
        base_path == IF m = "" THEN Dirname(path) ELSE m
        root == m
        repo_root == RepoRoot(path)
    IN  IF RootIsRelative(repo_root, base_path)
        THEN Relpath(base_path, repo_root)
        ELSE root

\* append_file_to_group(groups, path): the dict after the call.
AppendFileToGroup(g, path0) ==
    LET path == Abspath(path0)
        root == GroupKey(path)
        old == IF root \in DOMAIN g THEN g[root] ELSE <<>>
    IN  [k \in DOMAIN g \cup {root} |-> IF k = root THEN Append(old, path) ELSE g[k]]

\* Appending a list of paths in order, skipping the excluded ones.
RECURSIVE AppendAll(_, _, _)
AppendAll(g, paths, excludes) ==
    IF paths = <<>> THEN g
    ELSE AppendAll(
            IF Realpath(Head(paths)) \notin excludes
            THEN AppendFileToGroup(g, Head(paths)) ELSE g,
            Tail(paths), excludes)

\* All the file paths a walk selects, in order.
RECURSIVE Flatten(_)
Flatten(visits) ==
    IF visits = <<>> THEN <<>> ELSE Head(visits).found \o Flatten(Tail(visits))

(***************************************************************************)
(* get_file_groups, one step per element of `paths`                        *)
(***************************************************************************)

EmptyArgs ==
    [ruleset |-> "basic", cobra_version |-> FALSE, compile_cmds |-> FALSE,
     include_dirs |-> <<>>, xunit_file |-> "", sarif_file |-> ""]

IdleM ==
    /\ args = EmptyArgs /\ m_pc = "idle" /\ returned_at = "" /\ cobra_bin = ""
    /\ m_groups = <<>> /\ cmd = <<>> /\ options_map = <<>> /\ gi = 1 /\ fi = 1
    /\ version_runs = 0 /\ invocations = <<>> /\ launch_failed = FALSE
    /\ reported = 0 /\ report = <<>> /\ error_count = 0 /\ rc = 0
    /\ printed = {} /\ disk = {} /\ exc = ""

IdleE ==
    /\ e_ruleset = "basic" /\ e_tokens = <<>> /\ e_pos = 0
    /\ e_out = <<>> /\ e_pc = "idle"

InitGroups ==
    /\ fs_ignored \in SUBSET IgnoreCandidates
    /\ fs_vcs \in {{}} \cup {{d} : d \in VcsCandidates}
    /\ g_paths \in SeqsOf(PathCandidates, 1, MaxPaths)
    /\ g_excludes \in ExcludeCandidates
    /\ g_idx = 1
    /\ groups = <<>>
    /\ walked = {}
    /\ g_pc = "loop"
    /\ IdleE
    /\ IdleM

\* for path in paths: if os.path.isdir(path): os.walk ... (lines 302-317)
WalkDirectory ==
    /\ g_pc = "loop" /\ g_idx <= Len(g_paths)
    /\ IsDir(g_paths[g_idx])
    /\ LET top == g_paths[g_idx]
           visits == Walk(top)
       IN  /\ groups' = AppendAll(groups, Flatten(visits), g_excludes)
           /\ walked' = walked \cup {<<top, visits[i].dirpath>> : i \in 1..Len(visits)}
    /\ g_idx' = g_idx + 1
    /\ UNCHANGED <<fs_ignored, fs_vcs, g_paths, g_excludes, g_pc, varsE, varsM>>

\* if os.path.isfile(path): ... append_file_to_group(groups, path) (319-321)
AddFile ==
    /\ g_pc = "loop" /\ g_idx <= Len(g_paths)
    /\ IsFile(g_paths[g_idx])
    /\ groups' = AppendAll(groups, <<g_paths[g_idx]>>, g_excludes)
    /\ g_idx' = g_idx + 1
    /\ UNCHANGED <<fs_ignored, fs_vcs, g_paths, g_excludes, walked, g_pc, varsE, varsM>>

\* A path that is neither a directory nor a file adds nothing.
SkipPath ==
    /\ g_pc = "loop" /\ g_idx <= Len(g_paths)
    /\ ~IsDir(g_paths[g_idx]) /\ ~IsFile(g_paths[g_idx])
    /\ g_idx' = g_idx + 1
    /\ UNCHANGED <<fs_ignored, fs_vcs, g_paths, g_excludes, groups, walked, g_pc, varsE, varsM>>

\* return groups (line 323)
ReturnGroups ==
    /\ g_pc = "loop" /\ g_idx > Len(g_paths)
    /\ g_pc' = "returned"
    /\ UNCHANGED <<fs_ignored, fs_vcs, g_paths, g_excludes, g_idx, groups, walked, varsE, varsM>>

NextGroups == WalkDirectory \/ AddFile \/ SkipPath \/ ReturnGroups

SpecGroups == InitGroups /\ [][NextGroups]_vars

(***************************************************************************)
(* Properties of get_file_groups                                           *)
(***************************************************************************)

\* Every path held by some group.
GroupedFiles == UNION {{groups[k][i] : i \in 1..Len(groups[k])} : k \in DOMAIN groups}

\* Directory d is `top` or lies below it.
IsUnder(d, top) == d = top \/ top = "/" \/ StartsWith(d, top \o "/")

\* The file lies in a marked directory or in a descendant of one.
InIgnoredTree(f) == \E m \in fs_ignored : IsUnder(Dirname(f), m)

\* The elements of `paths` handled so far.
Handled == {g_paths[i] : i \in 1..(g_idx - 1)}

\* C5 as stated: no grouped file lies in or below a directory that holds an
\* AMENT_IGNORE marker, whatever the input paths are.
C5_NoFileFromIgnoredTree == \A f \in GroupedFiles : ~InIgnoredTree(f)

\* C5 amended: a grouped file is either named directly in `paths`, or was found
\* by walking an input directory `top` with no marked directory between `top`
\* and the file (both included); and a walk never yields a directory strictly
\* below a marked directory that it reached from `top`.
C5_WalkPrunesIgnored ==
    /\ \A f \in GroupedFiles :
          \/ \E p \in Handled : IsFile(p) /\ Abspath(p) = f
          \/ \E p \in Handled :
                /\ IsDir(p)
                /\ IsUnder(Dirname(f), Abspath(p))
                /\ \A m \in fs_ignored :
                      ~(IsUnder(m, Abspath(p)) /\ IsUnder(Dirname(f), m))
    /\ \A w \in walked :
          \A m \in fs_ignored :
              ~(/\ IsUnder(m, Abspath(w[1]))
                /\ Abspath(w[2]) # m
                /\ IsUnder(Abspath(w[2]), m))

\* C5's case: a walk of /w/src met the marked /w/src/gen, kept z.c and took
\* nothing from below the marker.
C5_Witness ==
    /\ g_pc = "returned"
    /\ g_paths = <<"/w/src">>
    /\ "/w/src/gen" \in fs_ignored
    /\ <<"/w/src", "/w/src/gen">> \in walked
    /\ "/w/src/z.c" \in GroupedFiles
    /\ "/w/src/gen/bad.c" \notin GroupedFiles

\* A list holds no element twice.
NoDuplicates(s) == \A i, j \in 1..Len(s) : i # j => s[i] # s[j]

\* C6 as stated: every group's list returned by get_file_groups is sorted and
\* holds each absolute path at most once.
C6_SortedDeduplicated ==
    g_pc = "returned" =>
        \A k \in DOMAIN groups : IsSorted(groups[k]) /\ NoDuplicates(groups[k])

\* No ancestor directory of the file is named include, src or test.
NoSubfolderAncestor(f) ==
    LET parts == Split(Dirname(f))
    IN  \A i \in 1..Len(parts) : parts[i] \notin {"include", "src", "test"}

\* C10: a file with no ancestor directory named include, src or test is held by
\* the group whose key is the empty string, wherever a .git marker is.
C10_UnmatchedFilesInEmptyGroup ==
    \A k \in DOMAIN groups :
        \A i \in 1..Len(groups[k]) :
            NoSubfolderAncestor(groups[k][i]) => k = ""

\* C10's case: two such files from different directories, a .git marker in the
\* directory of one of them, both in the "" group.
C10_Witness ==
    /\ g_pc = "returned"
    /\ fs_vcs = {"/w/lib"}
    /\ "" \in DOMAIN groups
    /\ {"/w/top.c", "/w/lib/x.c"} \subseteq {groups[""][i] : i \in 1..Len(groups[""])}

(***************************************************************************)
(* Preprocessor option extraction (main, lines 143-162)                    *)
(***************************************************************************)

\* Bound: the longest tokenized command explored.
MaxTokens == 3

\* The Cobra rulesets (line 48).
rulesets == <<"basic", "cwe", "p10", "jpl", "misra2012">>

RulesetSet == {rulesets[i] : i \in 1..Len(rulesets)}

\* The values the tokens of item['command'].split() are drawn from.
TokenCandidates == {"-D", "-I", "-U", "-isystem", "-DFOO", "-Iinc", "g++", "x"}

\* args.ruleset not in ['basic', 'p10']
NeedsPreprocessorOptions(ruleset) == ruleset \notin {"basic", "p10"}

\* option in ['-D', '-I', '-U']
IsSeparatedFlag(option) == option \in {"-D", "-I", "-U"}

\* option.startswith(('-D', '-I', '-U'))
IsConcatenatedFlag(option) ==
    StartsWith(option, "-D") \/ StartsWith(option, "-I") \/ StartsWith(option, "-U")

\* [option, options.__next__()]
SeparatedOption(option, argument) == <<option, argument>>

\* A slip of line 155: the -isystem pair passed through unchanged.
IsystemOption_unchanged(argument) == <<"-isystem", argument>>

\* ['-I' + options.__next__()]
IsystemOption(argument) == <<"-I" \o argument>>

IdleG ==
    /\ fs_ignored = {} /\ fs_vcs = {} /\ g_paths = <<>> /\ g_excludes = {}
    /\ g_idx = 1 /\ groups = <<>> /\ walked = {} /\ g_pc = "idle"

InitExtract ==
    /\ e_ruleset \in RulesetSet
    /\ e_tokens \in SeqsOf(TokenCandidates, 0, MaxTokens)
    /\ e_pos = 0
    /\ e_out = <<>>
    /\ e_pc = "loop"
    /\ IdleG
    /\ IdleM

\* The token `for option in options` hands out next.
NextOption == e_tokens[e_pos + 1]

\* The ruleset needs no preprocessor options: the list stays empty (149).
SkipExtraction ==
    /\ e_pc = "loop" /\ ~NeedsPreprocessorOptions(e_ruleset)
    /\ e_pc' = "done"
    /\ UNCHANGED <<e_ruleset, e_tokens, e_pos, e_out, varsG, varsM>>

\* option in ['-D', '-I', '-U'] and the iterator has another token (152-153)
TakeSeparated ==
    /\ e_pc = "loop" /\ NeedsPreprocessorOptions(e_ruleset)
    /\ e_pos + 2 <= Len(e_tokens)
    /\ IsSeparatedFlag(NextOption)
    /\ e_out' = e_out \o SeparatedOption(NextOption, e_tokens[e_pos + 2])
    /\ e_pos' = e_pos + 2
    /\ UNCHANGED <<e_ruleset, e_tokens, e_pc, varsG, varsM>>

\* option == '-isystem' and the iterator has another token (154-155)
TakeIsystem ==
    /\ e_pc = "loop" /\ NeedsPreprocessorOptions(e_ruleset)
    /\ e_pos + 2 <= Len(e_tokens)
    /\ ~IsSeparatedFlag(NextOption) /\ NextOption = "-isystem"
    /\ e_out' = e_out \o IsystemOption(e_tokens[e_pos + 2])
    /\ e_pos' = e_pos + 2
    /\ UNCHANGED <<e_ruleset, e_tokens, e_pc, varsG, varsM>>

\* options.__next__() on the exhausted iterator raises StopIteration, which
\* nothing in main catches (153, 155).
RaiseStopIteration ==
    /\ e_pc = "loop" /\ NeedsPreprocessorOptions(e_ruleset)
    /\ e_pos + 1 = Len(e_tokens)
    /\ IsSeparatedFlag(NextOption) \/ NextOption = "-isystem"
    /\ e_pos' = e_pos + 1
    /\ e_pc' = "raised"
    /\ UNCHANGED <<e_ruleset, e_tokens, e_out, varsG, varsM>>

\* option.startswith(('-D', '-I', '-U')) (156-157)
TakeConcatenated ==
    /\ e_pc = "loop" /\ NeedsPreprocessorOptions(e_ruleset)
    /\ e_pos + 1 <= Len(e_tokens)
    /\ ~IsSeparatedFlag(NextOption) /\ NextOption # "-isystem"
    /\ IsConcatenatedFlag(NextOption)
    /\ e_out' = e_out \o <<NextOption>>
    /\ e_pos' = e_pos + 1
    /\ UNCHANGED <<e_ruleset, e_tokens, e_pc, varsG, varsM>>

\* Any other token is dropped.
DropToken ==
    /\ e_pc = "loop" /\ NeedsPreprocessorOptions(e_ruleset)
    /\ e_pos + 1 <= Len(e_tokens)
    /\ ~IsSeparatedFlag(NextOption) /\ NextOption # "-isystem"
    /\ ~IsConcatenatedFlag(NextOption)
    /\ e_pos' = e_pos + 1
    /\ UNCHANGED <<e_ruleset, e_tokens, e_out, e_pc, varsG, varsM>>

\* The iterator is exhausted: the for loop ends (151).
FinishExtraction ==
    /\ e_pc = "loop" /\ NeedsPreprocessorOptions(e_ruleset)
    /\ e_pos = Len(e_tokens)
    /\ e_pc' = "done"
    /\ UNCHANGED <<e_ruleset, e_tokens, e_pos, e_out, varsG, varsM>>

NextExtract ==
    \/ SkipExtraction \/ TakeSeparated \/ TakeIsystem \/ RaiseStopIteration
    \/ TakeConcatenated \/ DropToken \/ FinishExtraction

SpecExtract == InitExtract /\ [][NextExtract]_vars

(***************************************************************************)
(* Properties of the extraction                                            *)
(***************************************************************************)

\* Position i holds -D, -I, -U or -isystem and is not itself the argument of
\* the flag before it.
OpensPair(tokens) ==
    LET f[i \in 0..Len(tokens)] ==
            IF i = 0 THEN FALSE
            ELSE (IsSeparatedFlag(tokens[i]) \/ tokens[i] = "-isystem") /\ ~f[i - 1]
    IN  f

\* What position i of the command contributes to the option list.
Contribution(tokens, i) ==
    LET opens == OpensPair(tokens)
    IN  IF opens[i - 1] THEN <<>>
        ELSE IF opens[i] /\ i < Len(tokens)
             THEN IF tokens[i] = "-isystem" THEN <<"-I" \o tokens[i + 1]>>
                  ELSE <<tokens[i], tokens[i + 1]>>
        ELSE IF ~opens[i] /\ IsConcatenatedFlag(tokens[i]) THEN <<tokens[i]>>
        ELSE <<>>

\* The contributions of positions 1..n, in command order.
RECURSIVE ExpectedOptions(_, _)
ExpectedOptions(tokens, n) ==
    IF n = 0 THEN <<>>
    ELSE ExpectedOptions(tokens, n - 1) \o Contribution(tokens, n)

\* C7 as stated, its last sentence: the literal token -isystem is never emitted.
C7_IsystemNeverEmitted == \A j \in 1..Len(e_out) : e_out[j] # "-isystem"

\* C7 amended: for a rule set other than basic and p10, a finished extraction
\* yields, in command order, each separated -D/-I/-U with the token after it,
\* -I<X> for each "-isystem X" and each concatenated flag unchanged, where a
\* token taken as a flag's argument is not read as a flag; -isystem appears in
\* the list only as the argument right after a separated flag; and the
\* extraction raises exactly when the command ends in a flag with no argument.
C7_ExtractedOptions ==
    /\ (e_pc = "done" /\ NeedsPreprocessorOptions(e_ruleset)) =>
          /\ e_out = ExpectedOptions(e_tokens, Len(e_tokens))
          /\ ~OpensPair(e_tokens)[Len(e_tokens)]
    /\ e_pc = "raised" => OpensPair(e_tokens)[Len(e_tokens)]
    /\ (e_pc = "loop" /\ e_pos = Len(e_tokens)) => ~OpensPair(e_tokens)[Len(e_tokens)]
    /\ \A j \in 1..Len(e_out) :
          e_out[j] = "-isystem" => j > 1 /\ IsSeparatedFlag(e_out[j - 1])

\* C7's case: "-isystem x -DFOO" under jpl gives -Ix and -DFOO.
C7_Witness ==
    /\ e_pc = "done"
    /\ e_ruleset = "jpl"
    /\ e_tokens = <<"-isystem", "x", "-DFOO">>
    /\ e_out = <<"-Ix", "-DFOO">>

(***************************************************************************)
(* main                                                                    *)
(***************************************************************************)

\* Bound: the largest number of groups get_file_groups hands to main.
MaxGroups == 2

basic_args == <<"-C++", "-comments", "-json">>

\* associated_args[ruleset] (lines 51-57)
associated_args(ruleset) == IF ruleset = "misra2012" THEN <<"-cpp">> ELSE <<>>

\* 'cobra' if args.ruleset != 'cwe' else 'cwe' (line 106)
TargetBinary(ruleset) == IF ruleset # "cwe" THEN "cobra" ELSE "cwe"

\* The file name of the example failure invoke_cobra records (line 247).
ExampleFile == "/home/michael/src/ros2/src/ros2/rcutils/src/logging.c"

\* A slip of lines 489-495: an intermediate file name entered for cwe.
ruleset_to_filename_cwe(ruleset) ==
    CASE ruleset = "basic" -> "_Basic_.txt"
      [] ruleset = "cwe" -> "_CWE_.txt"
      [] ruleset = "p10" -> "_P10_.txt"
      [] ruleset = "jpl" -> "_JPL_.txt"
      [] ruleset = "misra2012" -> ""

\* ruleset_to_filename[ruleset], "" for None (lines 489-495)
ruleset_to_filename(ruleset) ==
    CASE ruleset = "basic" -> "_Basic_.txt"
      [] ruleset = "cwe" -> ""
      [] ruleset = "p10" -> "_P10_.txt"
      [] ruleset = "jpl" -> "_JPL_.txt"
      [] ruleset = "misra2012" -> ""

\* The JSON file the analyzer leaves behind when it runs: none for cwe and
\* misra2012 (the comment of lines 483-484).
AnalyzerOutputFiles(ruleset) ==
    CASE ruleset = "basic" -> {"_Basic_.txt"}
      [] ruleset = "p10" -> {"_P10_.txt"}
      [] ruleset = "jpl" -> {"_JPL_.txt"}
      [] OTHER -> {}

\* The group keys main may receive, in sorted order.
GroupNames ==
    <<"", "/home/michael/src/ros2/src/ros2/rcutils/src", "/w/include", "/w/src">>

\* The files of each of those groups.
GroupFiles(name) ==
    CASE name = "" -> <<"/w/top.c">>
      [] name = "/home/michael/src/ros2/src/ros2/rcutils/src" -> <<ExampleFile>>
      [] name = "/w/include" -> <<"/w/include/a.c", "/w/include/b.c">>
      [] name = "/w/src" -> <<"/w/src/z.c">>

\* The items of an index set, in increasing order, mapped to groups.
RECURSIVE GroupsOf(_)
GroupsOf(I) ==
    IF I = {} THEN <<>>
    ELSE LET i == CHOOSE x \in I : \A y \in I : x <= y
         IN  <<[name |-> GroupNames[i], files |-> GroupFiles(GroupNames[i])]>>
                 \o GroupsOf(I \ {i})

\* What get_file_groups may return to main, listed in sorted(groups.keys()) order.
GroupChoices ==
    {GroupsOf(I) : I \in {J \in SUBSET (1..Len(GroupNames)) : Cardinality(J) <= MaxGroups}}

\* The command lines main may be started with (--verbose only adds an echo of
\* the command line and is left out).
ArgChoices ==
    [ruleset : RulesetSet \cup {"bogus"},
     cobra_version : BOOLEAN,
     compile_cmds : BOOLEAN,
     include_dirs : {<<>>, <<"inc">>},
     xunit_file : {"", "out/cobra.xunit.xml"},
     sarif_file : {"", "out/cobra.sarif"}]

\* What the analyzer may write to stdout, split at newlines.
StdoutChoices == {<<"">>, <<"3 patterns", "5 patterns", "">>}

\* The contents of the compile_commands.json file.
CompileDataChoices ==
    {<<>>,
     <<[file |-> "/w/src/z.c", directory |-> "/w/build",
        command |-> <<"g++", "-DFOO", "-isystem", "x", "-c", "z.c">>]>>,
     <<[file |-> "/w/top.c", directory |-> "/w/build",
        command |-> <<"g++", "-c", "top.c", "-I">>]>>}

\* The for loop of lines 150-157 run to its end: the option list, or the
\* StopIteration of options.__next__() on the exhausted iterator.
RECURSIVE ScanOptions(_, _, _)
ScanOptions(tokens, pos, out) ==
    IF pos = Len(tokens) THEN [raised |-> FALSE, options |-> out]
    ELSE LET option == tokens[pos + 1]
         IN  IF IsSeparatedFlag(option) \/ option = "-isystem"
             THEN IF pos + 2 > Len(tokens) THEN [raised |-> TRUE, options |-> out]
                  ELSE ScanOptions(tokens, pos + 2,
                          out \o (IF IsSeparatedFlag(option)
                                  THEN SeparatedOption(option, tokens[pos + 2])
                                  ELSE IsystemOption(tokens[pos + 2])))
             ELSE IF IsConcatenatedFlag(option)
             THEN ScanOptions(tokens, pos + 1, out \o <<option>>)
             ELSE ScanOptions(tokens, pos + 1, out)

\* preprocessor_options for one item (lines 148-157)
PreprocessorOptions(ruleset, tokens) ==
    IF NeedsPreprocessorOptions(ruleset) THEN ScanOptions(tokens, 0, <<>>)
    ELSE [raised |-> FALSE, options |-> <<>>]

\* for item in compile_data: options_map[item['file']] = {...} (143-162)
RECURSIVE BuildOptionsMap(_, _, _)
BuildOptionsMap(items, ruleset, map) ==
    IF items = <<>> THEN [raised |-> FALSE, map |-> map]
    ELSE LET item == Head(items)
             r == PreprocessorOptions(ruleset, item.command)
         IN  IF r.raised THEN [raised |-> TRUE, map |-> map]
             ELSE BuildOptionsMap(Tail(items), ruleset,
                     [f \in DOMAIN map \cup {item.file} |->
                         IF f = item.file
                         THEN [directory |-> item.directory, options |-> r.options]
                         ELSE map[f]])

\* for filename in files_in_group: report[filename] = [] (173-174)
ResetReport(rep, files) ==
    [f \in DOMAIN rep \cup {files[i] : i \in 1..Len(files)} |->
        IF \E i \in 1..Len(files) : files[i] = f THEN 0 ELSE rep[f]]

\* report[filename].append(failure) on the defaultdict (line 252)
AppendExampleFailure(rep) ==
    [f \in DOMAIN rep \cup {ExampleFile} |->
        IF f = ExampleFile
        THEN (IF f \in DOMAIN rep THEN rep[f] ELSE 0) + 1
        ELSE rep[f]]

\* sum(len(r) for r in report.values()) (line 195)
RECURSIVE SumReport(_, _)
SumReport(rep, S) ==
    IF S = {} THEN 0
    ELSE LET f == CHOOSE x \in S : TRUE
         IN  rep[f] + SumReport(rep, S \ {f})

\* The issue count a stdout line reports, 0 when it reports none.
IssueCount(line) ==
    CASE line = "3 patterns" -> 3
      [] line = "5 patterns" -> 5
      [] OTHER -> 0

RECURSIVE SumIssueCounts(_)
SumIssueCounts(lines) ==
    IF lines = <<>> THEN 0 ELSE IssueCount(Head(lines)) + SumIssueCounts(Tail(lines))

\* ['-I' + include_dir for include_dir in (args.include_dirs or [])]
IncludeFlags(include_dirs) == [i \in 1..Len(include_dirs) |-> "-I" \o include_dirs[i]]

InitMain ==
    /\ args \in ArgChoices
    /\ m_pc = "start" /\ returned_at = "" /\ cobra_bin = ""
    /\ m_groups = <<>> /\ cmd = <<>> /\ options_map = <<>> /\ gi = 1 /\ fi = 1
    /\ version_runs = 0 /\ invocations = <<>> /\ launch_failed = FALSE
    /\ reported = 0 /\ report = <<>> /\ error_count = 0 /\ rc = 0
    /\ printed = {} /\ disk = {} /\ exc = ""
    /\ IdleG
    /\ IdleE

\* `return value` at the place `at`.
Return(value, at) == m_pc' = "returned" /\ returned_at' = at /\ rc' = value

\* cobra_bin = find_executable(target_binary) found the binary (107)
ExecutableFound ==
    /\ m_pc = "start"
    /\ cobra_bin' = "/usr/bin/" \o TargetBinary(args.ruleset)
    /\ m_pc' = "version"
    /\ UNCHANGED <<args, returned_at, m_groups, cmd, options_map, gi, fi, version_runs,
                   invocations, launch_failed, reported, report, error_count, rc,
                   printed, disk, exc, varsG, varsE>>

\* if not cobra_bin: print error; return 1 (108-110)
ExecutableMissing ==
    /\ m_pc = "start"
    /\ printed' = printed \cup {"Error: Could not find the executable"}
    /\ Return(1, "no_executable")
    /\ UNCHANGED <<args, cobra_bin, m_groups, cmd, options_map, gi, fi, version_runs,
                   invocations, launch_failed, reported, report, error_count,
                   disk, exc, varsG, varsE>>

\* cobra_version = get_cobra_version(cobra_bin): runs `cobra -V` (112, 32-40)
GetCobraVersion ==
    /\ m_pc = "version"
    /\ version_runs' = version_runs + 1
    /\ m_pc' = "versioned"
    /\ UNCHANGED <<args, returned_at, cobra_bin, m_groups, cmd, options_map, gi, fi,
                   invocations, launch_failed, reported, report, error_count, rc,
                   printed, disk, exc, varsG, varsE>>

\* `cobra -V` exits non-zero (check_output raises CalledProcessError) or prints
\* something other than six tokens (RuntimeError, line 39).
GetCobraVersionRaises ==
    /\ m_pc = "version"
    /\ version_runs' = version_runs + 1
    /\ \E e \in {"CalledProcessError", "RuntimeError"} : exc' = e
    /\ m_pc' = "raised"
    /\ UNCHANGED <<args, returned_at, cobra_bin, m_groups, cmd, options_map, gi, fi,
                   invocations, launch_failed, reported, report, error_count, rc,
                   printed, disk, varsG, varsE>>

\* if args.cobra_version: print(cobra_version); return 0 (113-115)
PrintCobraVersion ==
    /\ m_pc = "versioned" /\ args.cobra_version
    /\ printed' = printed \cup {"2.14"}
    /\ Return(0, "cobra_version")
    /\ UNCHANGED <<args, cobra_bin, m_groups, cmd, options_map, gi, fi, version_runs,
                   invocations, launch_failed, reported, report, error_count,
                   disk, exc, varsG, varsE>>

\* groups = get_file_groups(...) is not empty (117)
GetFileGroups ==
    /\ m_pc = "versioned" /\ ~args.cobra_version
    /\ \E g \in GroupChoices : g # <<>> /\ m_groups' = g
    /\ m_pc' = "ruleset"
    /\ UNCHANGED <<args, returned_at, cobra_bin, cmd, options_map, gi, fi, version_runs,
                   invocations, launch_failed, reported, report, error_count, rc,
                   printed, disk, exc, varsG, varsE>>

\* if not groups: print('No files found'); return 1 (118-120)
NoFilesFound ==
    /\ m_pc = "versioned" /\ ~args.cobra_version
    /\ <<>> \in GroupChoices
    /\ printed' = printed \cup {"No files found"}
    /\ Return(1, "no_files")
    /\ UNCHANGED <<args, cobra_bin, m_groups, cmd, options_map, gi, fi, version_runs,
                   invocations, launch_failed, reported, report, error_count,
                   disk, exc, varsG, varsE>>

\* cmd = [cobra_bin] + basic_args; if args.ruleset in rulesets: extend (122-127)
AcceptRuleset ==
    /\ m_pc = "ruleset" /\ args.ruleset \in RulesetSet
    /\ cmd' = <<cobra_bin>> \o basic_args \o <<"-f", args.ruleset>>
                \o associated_args(args.ruleset)
    /\ m_pc' = "options"
    /\ UNCHANGED <<args, returned_at, cobra_bin, m_groups, options_map, gi, fi,
                   version_runs, invocations, launch_failed, reported, report,
                   error_count, rc, printed, disk, exc, varsG, varsE>>

\* else: print('Error: Invalid ruleset specified'); return 1 (128-130)
RejectRuleset ==
    /\ m_pc = "ruleset" /\ args.ruleset \notin RulesetSet
    /\ cmd' = <<cobra_bin>> \o basic_args
    /\ printed' = printed \cup {"Error: Invalid ruleset specified"}
    /\ Return(1, "invalid_ruleset")
    /\ UNCHANGED <<args, cobra_bin, m_groups, options_map, gi, fi, version_runs,
                   invocations, launch_failed, reported, report, error_count,
                   disk, exc, varsG, varsE>>

\* if args.compile_cmds: false (139)
NoCompileCommands ==
    /\ m_pc = "options" /\ ~args.compile_cmds
    /\ m_pc' = "group"
    /\ UNCHANGED <<args, returned_at, cobra_bin, m_groups, cmd, options_map, gi, fi,
                   version_runs, invocations, launch_failed, reported, report,
                   error_count, rc, printed, disk, exc, varsG, varsE>>

\* The warning of 132-134, then the compile_commands.json items are read and
\* their options extracted (139-162); a dangling flag raises StopIteration.
LoadCompileCommands ==
    /\ m_pc = "options" /\ args.compile_cmds
    /\ printed' = IF args.include_dirs # <<>>
                  THEN printed \cup {"Warning: --include_dirs ignored"}
                  ELSE printed
    /\ \E data \in CompileDataChoices :
          LET r == BuildOptionsMap(data, args.ruleset, <<>>)
          IN  /\ options_map' = r.map
              /\ m_pc' = IF r.raised THEN "raised" ELSE "group"
              /\ exc' = IF r.raised THEN "StopIteration" ELSE exc
    /\ UNCHANGED <<args, returned_at, cobra_bin, m_groups, cmd, gi, fi,
                   version_runs, invocations, launch_failed, reported, report,
                   error_count, rc, disk, varsG, varsE>>

\* invoke_cobra(arguments, report, verbose) (224-267) called on the report
\* `rep`; main continues at `next` when the call returns.
InvokeCobra(arguments, rep, next) ==
    /\ invocations' = Append(invocations, arguments)
    /\ \/ \* Popen cannot start the child: it raises OSError, which the
          \* `except subprocess.CalledProcessError` of line 231 does not catch.
          /\ launch_failed' = TRUE
          /\ exc' = "OSError"
          /\ m_pc' = "raised"
          /\ report' = rep
          /\ UNCHANGED <<reported, printed, disk>>
       \/ \* The analyzer runs: its lines are echoed and one example failure
          \* is appended whatever the lines say (238-252).
          \E lines \in StdoutChoices :
             /\ printed' = printed \cup {lines[i] : i \in {j \in 1..Len(lines) : lines[j] # ""}}
             /\ reported' = reported + SumIssueCounts(lines)
             /\ report' = AppendExampleFailure(rep)
             /\ disk' = disk \cup AnalyzerOutputFiles(args.ruleset)
             /\ m_pc' = next
             /\ UNCHANGED <<launch_failed, exc>>

\* One pass of the group loop without a compile database: `arguments = cmd`
\* names the same list, so the -I flags and the files are appended to cmd
\* itself (170-174, 187-192).
RunGroup ==
    /\ m_pc = "group" /\ gi <= Len(m_groups) /\ ~args.compile_cmds
    /\ cmd' = cmd \o IncludeFlags(args.include_dirs) \o m_groups[gi].files
    /\ InvokeCobra(cmd', ResetReport(report, m_groups[gi].files), "group")
    /\ gi' = gi + 1
    /\ UNCHANGED <<args, returned_at, cobra_bin, m_groups, options_map, fi,
                   version_runs, error_count, rc, varsG, varsE>>

\* The start of a pass with a compile database (170-178).
BeginGroupFiles ==
    /\ m_pc = "group" /\ gi <= Len(m_groups) /\ args.compile_cmds
    /\ report' = ResetReport(report, m_groups[gi].files)
    /\ fi' = 1
    /\ m_pc' = "file"
    /\ UNCHANGED <<args, returned_at, cobra_bin, m_groups, cmd, options_map, gi,
                   version_runs, invocations, launch_failed, reported,
                   error_count, rc, printed, disk, exc, varsG, varsE>>

\* for filename in files_in_group: ... invoke_cobra(arguments, ...) (179-185)
RunFile ==
    /\ m_pc = "file" /\ fi <= Len(m_groups[gi].files)
    /\ LET filename == m_groups[gi].files[fi]
           arguments ==
               IF filename \in DOMAIN options_map /\ options_map[filename].options # <<>>
               THEN cmd \o options_map[filename].options \o <<filename>>
               ELSE cmd \o <<filename>>
       IN  InvokeCobra(arguments, report, "file")
    /\ fi' = fi + 1
    /\ UNCHANGED <<args, returned_at, cobra_bin, m_groups, cmd, options_map, gi,
                   version_runs, error_count, rc, varsG, varsE>>

\* The inner loop is over: on to the next group.
EndGroupFiles ==
    /\ m_pc = "file" /\ fi > Len(m_groups[gi].files)
    /\ gi' = gi + 1
    /\ m_pc' = "group"
    /\ UNCHANGED <<args, returned_at, cobra_bin, m_groups, cmd, options_map, fi,
                   version_runs, invocations, launch_failed, reported, report,
                   error_count, rc, printed, disk, exc, varsG, varsE>>

\* Output a summary (194-201)
Summarize ==
    /\ m_pc = "group" /\ gi > Len(m_groups)
    /\ error_count' = SumReport(report, DOMAIN report)
    /\ IF error_count' = 0
       THEN printed' = printed \cup {"No problems found"} /\ rc' = 0
       ELSE printed' = printed \cup {ToString(error_count') \o " errors"} /\ rc' = 1
    /\ m_pc' = "xunit"
    /\ UNCHANGED <<args, returned_at, cobra_bin, m_groups, cmd, options_map, gi, fi,
                   version_runs, invocations, launch_failed, reported, report,
                   disk, exc, varsG, varsE>>

\* if args.xunit_file: write_xunit_file(...) writes the file from the report,
\* whatever the ruleset (206-207, 460-476)
WriteXunitFile ==
    /\ m_pc = "xunit" /\ args.xunit_file # ""
    /\ disk' = disk \cup {args.xunit_file}
    /\ m_pc' = "sarif"
    /\ UNCHANGED <<args, returned_at, cobra_bin, m_groups, cmd, options_map, gi, fi,
                   version_runs, invocations, launch_failed, reported, report,
                   error_count, rc, printed, exc, varsG, varsE>>

\* No --xunit-file.
SkipXunitFile ==
    /\ m_pc = "xunit" /\ args.xunit_file = ""
    /\ m_pc' = "sarif"
    /\ UNCHANGED <<args, returned_at, cobra_bin, m_groups, cmd, options_map, gi, fi,
                   version_runs, invocations, launch_failed, reported, report,
                   error_count, rc, printed, disk, exc, varsG, varsE>>

\* No --sarif-file.
SkipSarifFile ==
    /\ m_pc = "sarif" /\ args.sarif_file = ""
    /\ m_pc' = "return"
    /\ UNCHANGED <<args, returned_at, cobra_bin, m_groups, cmd, options_map, gi, fi,
                   version_runs, invocations, launch_failed, reported, report,
                   error_count, rc, printed, disk, exc, varsG, varsE>>

\* write_sarif_file: the ruleset has no input file; the message is printed
\* and the 1 it returns is dropped by main (497-499, 211).
SarifUnavailable ==
    /\ m_pc = "sarif" /\ args.sarif_file # ""
    /\ ruleset_to_filename(args.ruleset) = ""
    /\ printed' = printed \cup {"Can't generate SARIF file"}
    /\ m_pc' = "return"
    /\ UNCHANGED <<args, returned_at, cobra_bin, m_groups, cmd, options_map, gi, fi,
                   version_runs, invocations, launch_failed, reported, report,
                   error_count, rc, disk, exc, varsG, varsE>>

\* write_sarif_file: json_convert runs and its output is written (501-507)
WriteSarifFile ==
    /\ m_pc = "sarif" /\ args.sarif_file # ""
    /\ ruleset_to_filename(args.ruleset) # ""
    /\ disk' = disk \cup {args.sarif_file}
    /\ m_pc' = "return"
    /\ UNCHANGED <<args, returned_at, cobra_bin, m_groups, cmd, options_map, gi, fi,
                   version_runs, invocations, launch_failed, reported, report,
                   error_count, rc, printed, exc, varsG, varsE>>

\* write_sarif_file: json_convert cannot be started; Popen raises OSError,
\* which `except subprocess.CalledProcessError` does not catch (504, 508)
WriteSarifRaises ==
    /\ m_pc = "sarif" /\ args.sarif_file # ""
    /\ ruleset_to_filename(args.ruleset) # ""
    /\ exc' = "OSError"
    /\ m_pc' = "raised"
    /\ UNCHANGED <<args, returned_at, cobra_bin, m_groups, cmd, options_map, gi, fi,
                   version_runs, invocations, launch_failed, reported, report,
                   error_count, rc, printed, disk, varsG, varsE>>

\* return rc (213)
ReturnRc ==
    /\ m_pc = "return"
    /\ Return(rc, "end")
    /\ UNCHANGED <<args, cobra_bin, m_groups, cmd, options_map, gi, fi, version_runs,
                   invocations, launch_failed, reported, report, error_count,
                   printed, disk, exc, varsG, varsE>>

NextMain ==
    \/ ExecutableFound \/ ExecutableMissing
    \/ GetCobraVersion \/ GetCobraVersionRaises \/ PrintCobraVersion
    \/ GetFileGroups \/ NoFilesFound
    \/ AcceptRuleset \/ RejectRuleset
    \/ NoCompileCommands \/ LoadCompileCommands
    \/ RunGroup \/ BeginGroupFiles \/ RunFile \/ EndGroupFiles
    \/ Summarize
    \/ WriteXunitFile \/ SkipXunitFile
    \/ SkipSarifFile \/ SarifUnavailable \/ WriteSarifFile \/ WriteSarifRaises
    \/ ReturnRc

SpecMain == InitMain /\ [][NextMain]_vars

(***************************************************************************)
(* Properties of main                                                      *)
(***************************************************************************)

\* main has got as far as the summary.
SummaryReached == m_pc \in {"xunit", "sarif", "return"} \/ returned_at = "end"

\* main has returned from its last line.
ReturnedAtEnd == m_pc = "returned" /\ returned_at = "end"

\* C1 as stated: with a --ruleset value outside the five accepted names the
\* analyzer binary is never launched and main, once it returns, returns 1.
C1_InvalidRulesetNoLaunch ==
    args.ruleset \notin RulesetSet =>
        /\ version_runs = 0
        /\ invocations = <<>>
        /\ m_pc = "returned" => rc = 1

\* C2 as stated: at the summary the total that decides the exit code is the sum
\* of the issue counts the stdout lines of all invocations report; no reported
\* issue gives 'No problems found' and 0, a positive total gives 1.
C2_TotalIsReportedSum ==
    SummaryReached =>
        /\ error_count = reported
        /\ reported = 0 => ("No problems found" \in printed /\ rc = 0)
        /\ reported > 0 => rc = 1

\* The command line C3 describes for the k-th group.
GroupCommandLine(k) ==
    <<cobra_bin>> \o basic_args \o <<"-f", args.ruleset>>
        \o associated_args(args.ruleset) \o IncludeFlags(args.include_dirs)
        \o m_groups[k].files

\* C3 as stated: without a compile database the k-th invocation is for the k-th
\* group and carries the base flags, the rule-set flags, one -I per include
\* directory and that group's files only; at the summary there has been one
\* invocation per group.
C3_OneCleanInvocationPerGroup ==
    ~args.compile_cmds =>
        /\ Len(invocations) <= Len(m_groups)
        /\ \A k \in 1..Len(invocations) : invocations[k] = GroupCommandLine(k)
        /\ SummaryReached => Len(invocations) = Len(m_groups)

\* C4 as stated: a failed launch of the analyzer is caught and reported by
\* invoke_cobra, and main carries on instead of ending with the exception.
C4_LaunchFailureIsLocal ==
    launch_failed =>
        /\ m_pc # "raised"
        /\ "The invocation of 'cobra' failed" \in printed

\* The rulesets with no known intermediate results file.
NoIntermediateRulesets == {"cwe", "misra2012"}

\* The exit code the issue count alone determines.
RcOfCount == IF error_count = 0 THEN 0 ELSE 1

C9_IntermediateDeleted ==
    (/\ ReturnedAtEnd
     /\ (args.xunit_file # "" /\ args.xunit_file \in disk)
            \/ (args.sarif_file # "" /\ args.sarif_file \in disk)) =>
        disk \cap {"_Basic_.txt", "_P10_.txt", "_JPL_.txt"} = {}

====
